---- MODULE Spec2Model ----
(***************************************************************************)
(* Model of the redis-actor crate: the shared state cell and the actor     *)
(* runtime (src/actors/base), the Redis aggregate with its command/event   *)
(* cycle and message loop (src/aggregates/redis), and the facade           *)
(* (src/lib.rs).  The supervision engine, the mailboxes and the key-value  *)
(* store are the external collaborators the code calls.                    *)
(***************************************************************************)
EXTENDS Integers, Sequences, FiniteSets, TLC

(***************************************************************************)
(* Bounds of the model.                                                    *)
(***************************************************************************)
\* external commands (Connect/Reconnect) sent over one run
MaxCmds == 1
\* external operation messages (Query/Insert/Delete/unknown) sent over one run
MaxOps == 3
\* largest replica count a builder override asks for
MaxRedundancy == 2

(***************************************************************************)
(* Input domains.                                                          *)
(***************************************************************************)
\* url lists: Vec<String>; the empty list names no node at all
UrlLists == {<<>>, <<"a">>, <<"b">>}
Keys == {"k"}
\* what callers insert: (payload, has an expire_time); the first is kept for
\* good, the second is given a time to live
Inserts == {<<(<<1>>), FALSE>>, <<(<<2>>), TRUE>>}
\* the lists given to init_redis: one that cannot be connected, one that can
\* (the stores "a" and "b" are interchangeable)
StartLists == {<<>>, <<"a">>}
\* the stores (clusters) that the urls of UrlLists lead to
Clusters == {"a", "b"}
Replicas == 1..MaxRedundancy

VARIABLES
    caller,     \* what the most recent send gave the party that made it
    declared,   \* per hook: what the state type's with_* function returns
    overrides,  \* per hook: the ActorBuilder's field
    effective,  \* per hook: the setting the built supervisor / children run with
    redundancy, \* number of children the supervisor runs for the actor
    owner,      \* TRUE while the Actor<S> returned by run() is alive
    pc,         \* per child: position of its exec closure / handler
    writers,    \* children that hold the write guard of the state cell
    state,      \* Redis.state
    urls,       \* Redis.urls
    conn,       \* per child: the handler's local `conn` (url list it was built from)
    mailbox,    \* per child: messages delivered and not yet received
    store,      \* contents of each cluster
    startUrls,  \* the list given to init_redis
    extCmds,    \* external commands sent so far
    nOps,       \* number of external operation messages sent so far
    obs,        \* what the last loop iteration did
    hist,       \* per key: the last write that took effect
    applied     \* the last event applied

vars == <<caller, declared, overrides, effective, redundancy, owner, pc, writers, state,
          urls, conn, mailbox, store, startUrls, extCmds, nOps, obs, hist, applied>>

(***************************************************************************)
(* Messages.  One record shape for all of them; unused fields are blank.   *)
(***************************************************************************)
Msg(t, u, k, v, e) == [type |-> t, urls |-> u, key |-> k, value |-> v, expire |-> e]

\* RedisCommand
ConnectRedisServer(u) == Msg("ConnectRedisServer", u, "", <<>>, FALSE)
ReconnectRedisServer(u) == Msg("ReconnectRedisServer", u, "", <<>>, FALSE)
\* RedisEvent
RedisServerConnected(u) == Msg("RedisServerConnected", u, "", <<>>, FALSE)
RedisServerReconnected(u) == Msg("RedisServerReconnected", u, "", <<>>, FALSE)
\* operation messages
RedisQuery(k) == Msg("RedisQuery", <<>>, k, <<>>, FALSE)
RedisInsert(k, v, e) == Msg("RedisInsert", <<>>, k, v, e)
RedisDelete(k) == Msg("RedisDelete", <<>>, k, <<>>, FALSE)
\* any message of a type no closure of the handler matches
Unknown == Msg("Unknown", <<>>, "", <<>>, FALSE)

NoMsg == Msg("none", <<>>, "", <<>>, FALSE)

(***************************************************************************)
(* The aggregate: Aggregate::handle and Aggregate::apply.                  *)
(***************************************************************************)
\* a handle whose reconnect arm pushes nothing
HandleConnectOnly(command) ==
    IF command.type = "ReconnectRedisServer"
    THEN <<>>
    ELSE <<RedisServerConnected(command.urls)>>

\* handle(command) -> Ok(events): exactly one event, carrying the command's urls
Handle(command) ==
    IF command.type = "ReconnectRedisServer"
    THEN <<RedisServerReconnected(command.urls)>>
    ELSE <<RedisServerConnected(command.urls)>>

\* an apply whose two arms both set Initialized
ApplyAlwaysInitializes(agg, event) == [state |-> "Initialized", urls |-> event.urls]

\* apply(&mut self, event), on the pair (state, urls)
Apply(agg, event) ==
    IF event.type = "RedisServerConnected"
    THEN [state |-> "Initialized", urls |-> event.urls]
    ELSE [state |-> agg.state, urls |-> event.urls]

(***************************************************************************)
(* The pooled connection.  An Option is a sequence of length 0 or 1.       *)
(***************************************************************************)
\* ManageConnection::connect: a cluster connection needs at least one node
CanConnect(l) == l # <<>>

\* r2d2::Pool::builder().build(self.clone()) followed by pool.get():
\* <<l>> is a connection built from the url list l, <<>> is the Err that
\* the handler unwraps
PoolBuild(l) == IF CanConnect(l) THEN <<l>> ELSE <<>>

\* the store a connection built from l talks to
ClusterOf(l) == l[1]

Absent == [present |-> FALSE, val |-> <<>>, ttl |-> FALSE]

\* conn.get(key) as Vec<u8>: a missing key converts to the empty vector
StoreGet(s, c, k) == IF s[c][k].present THEN s[c][k].val ELSE <<>>
\* conn.set(key, value): SET drops any time to live of the key
StoreSet(s, c, k, v) == [s EXCEPT ![c][k] = [present |-> TRUE, val |-> v, ttl |-> FALSE]]
\* conn.expire(key, exp)
StoreExpire(s, c, k) == IF s[c][k].present THEN [s EXCEPT ![c][k].ttl = TRUE] ELSE s
\* conn.del(key)
StoreDel(s, c, k) == [s EXCEPT ![c][k] = Absent]

(***************************************************************************)
(* Configuration hooks.  A setting is "std", what the engine does when     *)
(* nothing is set, or "alt", anything else; an Option is <<>> or <<v>>.    *)
(***************************************************************************)
SupervisorHooks == {"supervisor_callbacks", "restart_strategy", "strategy"}
ChildrenHooks == {"children_callbacks", "dispatcher", "distributor", "heartbeat_tick",
                  "name", "redundancy", "resizer"}
Hooks == SupervisorHooks \cup ChildrenHooks
Settings == {"std", "alt"}

\* TActor's provided methods, and a fresh builder: every hook is None
Unset == [h \in Hooks |-> <<>>]

\* impl TActor for Redis: the distributor named "redis_actor", and
\* RestartStrategy(Always, Immediate), which is also the engine's own default
RedisHooks == [Unset EXCEPT !["distributor"] = <<"alt">>,
                            !["restart_strategy"] = <<"std">>]

\* the supervisor closure of run(): `if let Some(..) = self.<field>` only;
\* the state type's hook d is not read
SupervisorSetting(d, o) == IF o # <<>> THEN o[1] ELSE "std"

\* the children closure of run(): S::with_<hook>() first, self.<field> on top
ChildrenSetting(d, o) ==
    LET typed == IF d # <<>> THEN d[1] ELSE "std"
    IN IF o # <<>> THEN o[1] ELSE typed

\* the settings of the actor that run() builds
Merge(d, o) ==
    [h \in Hooks |-> IF h \in SupervisorHooks
                     THEN SupervisorSetting(d[h], o[h])
                     ELSE ChildrenSetting(d[h], o[h])]

\* children.with_redundancy(n): the engine runs one child unless told otherwise
RedundancyOf(e) == IF e["redundancy"] = "std" THEN 1 ELSE MaxRedundancy

(***************************************************************************)
(* The state cell and the distributor.                                     *)
(***************************************************************************)
Children == 1..redundancy

\* children whose future owns a strong handle obtained by State::upgrade
Holders == {r \in Children : pc[r] \in {"waiting", "starting", "loop"}}

\* an upgrade that hands out a cell whatever is left of it
CanUpgradeAlways == TRUE

\* Weak::upgrade succeeds iff some strong handle is alive
CanUpgrade == owner \/ Holders # {}

\* a lock that does not exclude
CanWriteAlways(w) == TRUE

\* RwLock::write is granted only when nobody holds the guard
CanWrite(w) == w = {}

\* Distributor::named("redis_actor").tell_one(m): the mailboxes that can result
TellOne(mb, m) == {[mb EXCEPT ![r] = Append(@, m)] : r \in Children}

RECURSIVE TellAll(_, _)
\* tell_one for each message of a sequence, in order
TellAll(mb, ms) ==
    IF ms = <<>> THEN {mb}
    ELSE UNION {TellAll(x, Tail(ms)) : x \in TellOne(mb, Head(ms))}

(***************************************************************************)
(* History kept for the properties.                                        *)
(***************************************************************************)
NoHist == [op |-> "none", val |-> <<>>, cluster |-> "", crashed |-> FALSE, reconf |-> FALSE]
NoObs == [kind |-> "none", key |-> "", st |-> "Uninitialized", reply |-> <<>>,
          via |-> <<>>, prior |-> NoHist]

\* the iteration of child r that received m: the state it saw, the reply it
\* sent (an Option) and the connection it held
Observe(m, r, rep) ==
    [kind |-> m.type, key |-> m.key, st |-> state, reply |-> rep, via |-> conn[r],
     prior |-> IF m.key \in Keys THEN hist[m.key] ELSE NoHist]

\* nobody has sent anything yet
NoCall == [op |-> "none", sent |-> FALSE, ret |-> "none"]

(***************************************************************************)
(* Initial states: init_redis(urls) has run the builder.                   *)
(***************************************************************************)
InitWith(n) ==
    /\ caller = NoCall
    /\ declared = RedisHooks
    /\ overrides = [Unset EXCEPT !["redundancy"] = IF n = 1 THEN <<>> ELSE <<"alt">>]
    /\ effective = Merge(declared, overrides)
    /\ redundancy = n
    /\ owner = TRUE
    /\ pc = [r \in Replicas |-> IF r <= n THEN "spawned" ELSE "absent"]
    /\ writers = {}
    /\ state = "Uninitialized"
    /\ startUrls \in StartLists
    /\ urls = startUrls
    /\ conn = [r \in Replicas |-> <<>>]
    /\ mailbox = [r \in Replicas |-> <<>>]
    /\ store = [c \in Clusters |-> [k \in Keys |-> Absent]]
    /\ extCmds = <<>>
    /\ nOps = 0
    /\ obs = NoObs
    /\ hist = [k \in Keys |-> NoHist]
    /\ applied = NoMsg

\* init_redis: no redundancy override, one child
Init == InitWith(1)

\* a builder with a with_redundancy override
InitR == \E n \in 1..MaxRedundancy : InitWith(n)

(***************************************************************************)
(* The exec closure installed by ActorBuilder::run.                        *)
(***************************************************************************)
MarkCrashed(h) ==
    [k \in Keys |-> IF h[k].op = "none" THEN h[k] ELSE [h[k] EXCEPT !.crashed = TRUE]]
MarkReconf(h) ==
    [k \in Keys |-> IF h[k].op = "none" THEN h[k] ELSE [h[k] EXCEPT !.reconf = TRUE]]

\* the handler of child r panics: the write guard and the future's strong
\* handle are dropped, and the supervisor relaunches the child
Crash(r) ==
    /\ pc' = [pc EXCEPT ![r] = "spawned"]
    /\ writers' = writers \ {r}
    /\ conn' = [conn EXCEPT ![r] = <<>>]

\* the supervisor calls the closure (first launch or restart):
\* State::upgrade(weak_state.clone()) returns the cell or panics
Exec(r) ==
    /\ r \in Children
    /\ pc[r] = "spawned"
    /\ pc' = [pc EXCEPT ![r] = IF CanUpgrade THEN "waiting" ELSE "dead"]
    /\ UNCHANGED <<caller, declared, overrides, effective, redundancy, owner, writers, state, urls, conn, mailbox, store,
                   startUrls, extCmds, nOps, obs, hist, applied>>

\* state.write().await is granted
Acquire(r) ==
    /\ r \in Children
    /\ pc[r] = "waiting"
    /\ CanWrite(writers)
    /\ writers' = writers \cup {r}
    /\ pc' = [pc EXCEPT ![r] = "starting"]
    /\ UNCHANGED <<caller, declared, overrides, effective, redundancy, owner, state, urls, conn, mailbox, store,
                   startUrls, extCmds, nOps, obs, hist, applied>>

\* a handler that enters its loop without the bootstrap command
BootstrapNone(u) == <<>>

\* what the handler tells itself before entering its loop
Bootstrap(u) == <<ConnectRedisServer(u)>>

\* Redis::handler up to the loop: build the pool from the aggregate's urls,
\* lease a connection, send the bootstrap command
HandlerStart(r) ==
    /\ r \in Children
    /\ pc[r] = "starting"
    /\ LET p == PoolBuild(urls) IN
         IF p = <<>>
         THEN /\ Crash(r)
              /\ hist' = MarkCrashed(hist)
              /\ UNCHANGED mailbox
         ELSE /\ pc' = [pc EXCEPT ![r] = "loop"]
              /\ conn' = [conn EXCEPT ![r] = p]
              /\ mailbox' \in TellAll(mailbox, Bootstrap(urls))
              /\ UNCHANGED <<writers, hist>>
    /\ UNCHANGED <<caller, declared, overrides, effective, redundancy, owner, state, urls, store, startUrls, extCmds, nOps,
                   obs, applied>>

(***************************************************************************)
(* One iteration of the handler's loop per message type.                   *)
(***************************************************************************)
Receives(r) == r \in Children /\ pc[r] = "loop" /\ mailbox[r] # <<>>
Rest(r) == [mailbox EXCEPT ![r] = Tail(@)]

\* a command closure that applies what it handled at once
OnCommandApplies(r) ==
    /\ Receives(r)
    /\ LET m == Head(mailbox[r])
           agg == Apply([state |-> state, urls |-> urls], Handle(m)[1])
       IN
         /\ m.type \in {"ConnectRedisServer", "ReconnectRedisServer"}
         /\ mailbox' \in TellAll(Rest(r), Handle(m))
         /\ obs' = Observe(m, r, <<>>)
         /\ state' = agg.state
         /\ urls' = agg.urls
    /\ UNCHANGED <<caller, declared, overrides, effective, redundancy, owner, pc,
                   writers, conn, store, startUrls, extCmds, nOps, hist, applied>>

\* .on_tell(|command: RedisCommand, _|)
OnCommand(r) ==
    /\ Receives(r)
    /\ LET m == Head(mailbox[r]) IN
         /\ m.type \in {"ConnectRedisServer", "ReconnectRedisServer"}
         /\ mailbox' \in TellAll(Rest(r), Handle(m))
         /\ obs' = Observe(m, r, <<>>)
    /\ UNCHANGED <<caller, declared, overrides, effective, redundancy, owner, pc, writers, state, urls, conn, store,
                   startUrls, extCmds, nOps, hist, applied>>

\* an event closure that keeps the old connection
RebuildsNever(event) == FALSE

\* the arm of the event closure that rebuilds the pool
Rebuilds(event) == event.type = "RedisServerReconnected"

\* .on_tell(|event: RedisEvent, _|)
OnEvent(r) ==
    /\ Receives(r)
    /\ LET m == Head(mailbox[r])
           agg == Apply([state |-> state, urls |-> urls], m)
           p == PoolBuild(agg.urls)
       IN
         /\ m.type \in {"RedisServerConnected", "RedisServerReconnected"}
         /\ state' = agg.state
         /\ urls' = agg.urls
         /\ applied' = m
         /\ mailbox' = Rest(r)
         /\ obs' = Observe(m, r, <<>>)
         /\ IF Rebuilds(m)
            THEN IF p = <<>>
                 THEN Crash(r) /\ hist' = MarkCrashed(MarkReconf(hist))
                 ELSE /\ conn' = [conn EXCEPT ![r] = p]
                      /\ hist' = MarkReconf(hist)
                      /\ UNCHANGED <<pc, writers>>
            ELSE UNCHANGED <<pc, writers, conn, hist>>
    /\ UNCHANGED <<caller, declared, overrides, effective, redundancy, owner, store, startUrls, extCmds, nOps>>

\* a query closure without the state check
QueryReplyAnyState(st, getOk, data) == IF getOk THEN <<data>> ELSE <<>>

\* the Option the query closure hands to sender.reply
QueryReply(st, getOk, data) == IF st = "Initialized" /\ getOk THEN <<data>> ELSE <<>>

\* a query closure that unwraps the lookup
ReplyPanicsOrNone(rep, replyOk) == rep = <<>> \/ ~replyOk

\* sender.reply(data).expect("cannot reply") panics: a reply was attempted
\* and could not be delivered
ReplyPanics(rep, replyOk) == rep # <<>> /\ ~replyOk

\* the query closure when conn.get returns Ok (getOk) or Err, and the reply
\* can be delivered (replyOk) or not
QueryStep(r, getOk, replyOk) ==
    /\ Receives(r)
    /\ LET m == Head(mailbox[r])
           rep == QueryReply(state, getOk, StoreGet(store, ClusterOf(conn[r][1]), m.key))
       IN
         /\ m.type = "RedisQuery"
         /\ mailbox' = Rest(r)
         /\ IF ReplyPanics(rep, replyOk)
            THEN /\ obs' = Observe(m, r, <<>>)
                 /\ Crash(r)
                 /\ hist' = MarkCrashed(hist)
            ELSE /\ obs' = Observe(m, r, rep)
                 /\ UNCHANGED <<pc, writers, conn, hist>>
    /\ UNCHANGED <<caller, declared, overrides, effective, redundancy, owner, state,
                   urls, store, startUrls, extCmds, nOps, applied>>

\* .on_question(|event: RedisQuery, sender|)
OnQuery(r) == \E getOk \in BOOLEAN, replyOk \in BOOLEAN : QueryStep(r, getOk, replyOk)

\* an insert closure that only sets the time to live
InsertStoreNoSet(st, s, c, m, setOk, expOk) ==
    IF st = "Initialized" /\ m.expire /\ expOk THEN StoreExpire(s, c, m.key) ELSE s

\* the store after the insert closure: set, then expire when a ttl is given
InsertStore(st, s, c, m, setOk, expOk) ==
    IF st = "Initialized"
    THEN LET s1 == IF setOk THEN StoreSet(s, c, m.key, m.value) ELSE s
         IN IF m.expire /\ expOk THEN StoreExpire(s1, c, m.key) ELSE s1
    ELSE s

\* the insert closure when conn.set and conn.expire return Ok or Err
InsertStep(r, setOk, expOk) ==
    /\ Receives(r)
    /\ LET m == Head(mailbox[r])
           c == ClusterOf(conn[r][1])
       IN
         /\ m.type = "RedisInsert"
         /\ mailbox' = Rest(r)
         /\ obs' = Observe(m, r, <<>>)
         /\ store' = InsertStore(state, store, c, m, setOk, expOk)
         /\ hist' = [hist EXCEPT ![m.key] =
                       IF state = "Initialized" /\ setOk
                       THEN [op |-> "insert", val |-> m.value, cluster |-> c,
                             crashed |-> FALSE, reconf |-> FALSE]
                       ELSE NoHist]
    /\ UNCHANGED <<caller, declared, overrides, effective, redundancy, owner, pc,
                   writers, state, urls, conn, startUrls, extCmds, nOps, applied>>

\* .on_tell(|event: RedisInsert, _|)
OnInsert(r) == \E setOk \in BOOLEAN, expOk \in BOOLEAN : InsertStep(r, setOk, expOk)

\* the store after the delete closure
DeleteStore(st, s, c, m, delOk) ==
    IF st = "Initialized" /\ delOk THEN StoreDel(s, c, m.key) ELSE s

\* the delete closure when conn.del returns Ok or Err
DeleteStep(r, delOk) ==
    /\ Receives(r)
    /\ LET m == Head(mailbox[r])
           c == ClusterOf(conn[r][1])
       IN
         /\ m.type = "RedisDelete"
         /\ mailbox' = Rest(r)
         /\ obs' = Observe(m, r, <<>>)
         /\ store' = DeleteStore(state, store, c, m, delOk)
         /\ hist' = [hist EXCEPT ![m.key] =
                       IF state = "Initialized" /\ delOk
                       THEN [op |-> "delete", val |-> <<>>, cluster |-> c,
                             crashed |-> FALSE, reconf |-> FALSE]
                       ELSE NoHist]
    /\ UNCHANGED <<caller, declared, overrides, effective, redundancy, owner, pc,
                   writers, state, urls, conn, startUrls, extCmds, nOps, applied>>

\* .on_tell(|event: RedisDelete, _|)
OnDelete(r) == \E delOk \in BOOLEAN : DeleteStep(r, delOk)

\* a fallback that treats the message as fatal
OnFallbackFatal(r) ==
    /\ Receives(r)
    /\ LET m == Head(mailbox[r]) IN
         /\ m.type = "Unknown"
         /\ mailbox' = Rest(r)
         /\ obs' = Observe(m, r, <<>>)
    /\ Crash(r)
    /\ hist' = MarkCrashed(hist)
    /\ UNCHANGED <<caller, declared, overrides, effective, redundancy, owner, state, urls, store, startUrls, extCmds, nOps,
                   applied>>

\* .on_fallback(|unknown, _| warn!(...))
OnFallback(r) ==
    /\ Receives(r)
    /\ LET m == Head(mailbox[r]) IN
         /\ m.type = "Unknown"
         /\ mailbox' = Rest(r)
         /\ obs' = Observe(m, r, <<>>)
    /\ UNCHANGED <<caller, declared, overrides, effective, redundancy, owner, pc, writers, state, urls, conn, store,
                   startUrls, extCmds, nOps, hist, applied>>

(***************************************************************************)
(* The environment: callers, the owner of the Actor, the store's clock.    *)
(***************************************************************************)
\* some party tells the aggregate a command
SendCommand ==
    /\ Len(extCmds) < MaxCmds
    /\ \E u \in UrlLists, t \in {"ConnectRedisServer", "ReconnectRedisServer"} :
         LET c == Msg(t, u, "", <<>>, FALSE) IN
           /\ mailbox' \in TellOne(mailbox, c)
           /\ extCmds' = Append(extCmds, c)
    /\ UNCHANGED <<caller, declared, overrides, effective, redundancy, owner, pc, writers, state, urls, conn, store,
                   startUrls, nOps, obs, hist, applied>>

OpMessages ==
    {RedisQuery(k) : k \in Keys} \cup {RedisDelete(k) : k \in Keys}
    \cup {RedisInsert(k, i[1], i[2]) : k \in Keys, i \in Inserts}
    \cup {Unknown}

\* the distributor "redis_actor" has recipients once run() has made the children
Registered == redundancy > 0

\* what a send gives its caller, by message type and by whether tell_one /
\* request returned Ok: insert and delete log an Err and return () either
\* way; query unwraps the SendError, and otherwise waits for the reply;
\* a party that tells a message itself holds the Result
FacadeReturn(t, sent) ==
    CASE t \in {"RedisInsert", "RedisDelete"} -> "unit"
      [] t = "RedisQuery" -> IF sent THEN "waiting" ELSE "panicked"
      [] OTHER -> IF sent THEN "ok" ELSE "err"

\* insert, query, delete of the facade, or a message of another type
SendOp ==
    /\ nOps < MaxOps
    /\ \E m \in OpMessages :
         /\ mailbox' \in IF Registered THEN TellOne(mailbox, m) ELSE {mailbox}
         /\ caller' = [op |-> m.type, sent |-> Registered,
                       ret |-> FacadeReturn(m.type, Registered)]
    /\ nOps' = nOps + 1
    /\ UNCHANGED <<declared, overrides, effective, redundancy, owner, pc, writers,
                   state, urls, conn, store, startUrls, extCmds, obs, hist, applied>>

\* the caller of init_redis drops the Actor it got back
DropActor ==
    /\ owner
    /\ owner' = FALSE
    /\ UNCHANGED <<caller, declared, overrides, effective, redundancy, pc, writers, state, urls, conn, mailbox, store,
                   startUrls, extCmds, nOps, obs, hist, applied>>

\* a key with a time to live runs out
KeyExpires ==
    \E c \in Clusters, k \in Keys :
        /\ store[c][k].present
        /\ store[c][k].ttl
        /\ store' = [store EXCEPT ![c][k] = Absent]
        /\ hist' = [hist EXCEPT ![k] = IF @.cluster = c THEN NoHist ELSE @]
        /\ UNCHANGED <<caller, declared, overrides, effective, redundancy, owner, pc, writers, state, urls, conn, mailbox,
                       startUrls, extCmds, nOps, obs, applied>>

Next ==
    \/ \E r \in Replicas : Exec(r)
    \/ \E r \in Replicas : Acquire(r)
    \/ \E r \in Replicas : HandlerStart(r)
    \/ \E r \in Replicas : OnCommand(r)
    \/ \E r \in Replicas : OnEvent(r)
    \/ \E r \in Replicas : OnQuery(r)
    \/ \E r \in Replicas : OnInsert(r)
    \/ \E r \in Replicas : OnDelete(r)
    \/ \E r \in Replicas : OnFallback(r)
    \/ SendCommand
    \/ SendOp
    \/ DropActor
    \/ KeyExpires

Spec == Init /\ [][Next]_vars

\* Next for runs in which nobody but the handler itself sends a command
NextOps ==
    \/ \E r \in Replicas : Exec(r)
    \/ \E r \in Replicas : Acquire(r)
    \/ \E r \in Replicas : HandlerStart(r)
    \/ \E r \in Replicas : OnCommand(r)
    \/ \E r \in Replicas : OnEvent(r)
    \/ \E r \in Replicas : OnQuery(r)
    \/ \E r \in Replicas : OnInsert(r)
    \/ \E r \in Replicas : OnDelete(r)
    \/ \E r \in Replicas : OnFallback(r)
    \/ SendOp
    \/ DropActor
    \/ KeyExpires

\* one loop iteration of child r, whatever the message
Iterate(r) ==
    \/ OnCommand(r) \/ OnEvent(r) \/ OnQuery(r)
    \/ OnInsert(r) \/ OnDelete(r) \/ OnFallback(r)

\* the supervisor launches and relaunches a child at once (RestartPolicy::Always,
\* ActorRestartStrategy::Immediate), the write lock is granted when free, and
\* the executor keeps polling a handler that has a message to receive
Fairness ==
    \A r \in Replicas :
        /\ WF_vars(Exec(r))
        /\ WF_vars(Acquire(r))
        /\ WF_vars(HandlerStart(r))
        /\ WF_vars(Iterate(r))

\* a single child that receives no external command, fairly scheduled
FairBoot == Init /\ [][NextOps]_vars /\ Fairness

\* the runtime with a replica count chosen by the builder
SpecR == InitR /\ [][NextOps]_vars

(***************************************************************************)
(* ActorBuilder::run for any state type and any builder.                   *)
(***************************************************************************)
\* no hook set, or one hook set to some setting
OneHookSet == {Unset} \cup {[Unset EXCEPT ![h] = <<v>>] : h \in Hooks, v \in Settings}
\* what state types declare
DeclaredHooks == OneHookSet \cup {RedisHooks}
\* what callers set on the builder before run()
BuilderOverrides == OneHookSet

\* Actor::<S>::builder().with_state_inner(..) and some with_<hook>(..) calls:
\* nothing is built or running yet
InitBuilder ==
    /\ caller = NoCall
    /\ declared \in DeclaredHooks
    /\ overrides \in BuilderOverrides
    /\ effective = [h \in Hooks |-> "none"]
    /\ redundancy = 0
    /\ owner = FALSE
    /\ pc = [r \in Replicas |-> "absent"]
    /\ writers = {}
    /\ state = "Uninitialized"
    /\ startUrls \in StartLists
    /\ urls = startUrls
    /\ conn = [r \in Replicas |-> <<>>]
    /\ mailbox = [r \in Replicas |-> <<>>]
    /\ store = [c \in Clusters |-> [k \in Keys |-> Absent]]
    /\ extCmds = <<>>
    /\ nOps = 0
    /\ obs = NoObs
    /\ hist = [k \in Keys |-> NoHist]
    /\ applied = NoMsg

\* ActorBuilder::run: the supervisor, then the children with their settings
\* and the exec closure; the Actor handed back owns the state cell
Run ==
    /\ ~owner
    /\ redundancy = 0
    /\ effective' = Merge(declared, overrides)
    /\ redundancy' = RedundancyOf(effective')
    /\ pc' = [r \in Replicas |-> IF r <= redundancy' THEN "spawned" ELSE "absent"]
    /\ owner' = TRUE
    /\ UNCHANGED <<caller, declared, overrides, writers, state, urls, conn, mailbox, store,
                   startUrls, extCmds, nOps, obs, hist, applied>>

SpecBuild == InitBuilder /\ [][Run]_vars

\* the builder of init_redis, and callers that may use the facade before
\* and after init_redis has run it
InitFacade == InitBuilder /\ declared = RedisHooks /\ overrides = Unset

SpecFacade == InitFacade /\ [][Run \/ SendOp]_vars

(***************************************************************************)
(* Properties.                                                             *)
(***************************************************************************)
Ops == {"RedisQuery", "RedisInsert", "RedisDelete"}
IsPrefix(s, t) == Len(s) <= Len(t) /\ SubSeq(t, 1, Len(s)) = s

\* the last iteration answered a query for a key whose last write, an
\* insert that the store accepted and that has not expired, is obs.prior
AnsweredAfterInsert ==
    /\ obs.kind = "RedisQuery"
    /\ obs.st = "Initialized"
    /\ obs.prior.op = "insert"
    /\ obs.reply # <<>>

Quiet == \A r \in Children : pc[r] = "loop" /\ mailbox[r] = <<>>

\* C2: when ConnectRedisServer{L} is the only external command sent to the
\* aggregate, then once everything sent has been handled the aggregate is
\* Initialized and its urls are L.
C2_ConnectWins ==
    (Len(extCmds) = 1 /\ extCmds[1].type = "ConnectRedisServer" /\ Quiet)
        => (state = "Initialized" /\ urls = extCmds[1].urls)

C4_InitializedIffPool ==
    \A r \in Children :
        pc[r] = "loop" =>
            /\ (state = "Initialized") <=> (conn[r] = <<urls>>)
            /\ state = "Initialized" => urls # <<>>

\* C5: a key inserted before a failure of the handler is still served after
\* the restart: a query answered after the restart, with no other message
\* for the key and no Reconnected event since the insert, returns the value.
C5_KeySurvivesRestart ==
    (AnsweredAfterInsert /\ obs.prior.crashed /\ ~obs.prior.reconf)
        => obs.reply = <<obs.prior.val>>

\* C6: a query received while the state is Uninitialized gets no reply.
C6_NoReplyUninitialized ==
    (obs.kind = "RedisQuery" /\ obs.st = "Uninitialized") => obs.reply = <<>>

C6_Witness ==
    /\ obs.kind = "RedisQuery"
    /\ obs.st = "Uninitialized"
    /\ obs.via # <<>>
    /\ \E r \in Children : pc[r] = "loop"

\* C7: a query that follows a delete of the same key on an Initialized
\* aggregate, served by the store the delete went to, gets no reply.
C7_NoReplyAfterDelete ==
    (/\ obs.kind = "RedisQuery"
     /\ obs.st = "Initialized"
     /\ obs.prior.op = "delete"
     /\ obs.prior.cluster = ClusterOf(obs.via[1]))
        => obs.reply = <<>>

\* C8: while an unmatched message is next in a running handler's mailbox, no
\* step ends or fails the loop or changes state or urls, and the messages
\* queued behind it stay next in line, in order.
C8_UnknownHarmless ==
    [][\A r \in Replicas :
          (Receives(r) /\ Head(mailbox[r]).type = "Unknown") =>
              /\ pc'[r] = "loop"
              /\ r \in writers'
              /\ conn'[r] = conn[r]
              /\ state' = state
              /\ urls' = urls
              /\ \/ mailbox'[r] = Tail(mailbox[r])
                 \/ IsPrefix(mailbox[r], mailbox'[r])]_vars

C8_Witness ==
    /\ obs.kind = "Unknown"
    /\ state = "Initialized"
    /\ \E r \in Children :
          /\ pc[r] = "loop"
          /\ mailbox[r] # <<>>
          /\ Head(mailbox[r]).type = "RedisQuery"

Booted == state = "Initialized" /\ urls = startUrls

Running == {r \in Children : pc[r] \in {"starting", "loop"}}

\* C10: at most one child holds the write guard of the state cell, the
\* children inside the handler are exactly the holders, and a child whose
\* handler has failed holds nothing.
C10_Exclusive == Cardinality(writers) <= 1 /\ Running = writers

C10_Witness ==
    /\ redundancy = 2
    /\ \E r \in Children, q \in Children : pc[r] = "loop" /\ pc[q] = "waiting"
    /\ \E k \in Keys : hist[k].crashed

\* C11, as stated: the handler runs (starts, or executes an iteration) only
\* while the Actor handle exists, and an invocation of the exec closure made
\* after the Actor was destroyed aborts at the upgrade.
C11_NoRunWithoutOwner ==
    [][\A r \in Replicas :
          /\ (HandlerStart(r) \/ Iterate(r)) => owner
          /\ (Exec(r) /\ ~owner) => pc'[r] = "dead"]_vars

\* C11, amended: the upgrade succeeds iff a strong handle of the cell is
\* live, the Actor's or the clone held by a running exec future.  Once none
\* is left none comes back and no closure reaches the handler again; an
\* invocation aborts at the upgrade only after the Actor was destroyed.
C11_UpgradeNeedsLiveHandle ==
    /\ [][(~owner /\ Holders = {}) => (~owner' /\ Holders' = {})]_vars
    /\ [][\A r \in Replicas :
            Exec(r) => (pc'[r] = "dead" <=> (~owner /\ Holders = {}))]_vars
    /\ [](\A r \in Children : pc[r] = "dead" => ~owner)

C11_Witness ==
    /\ ~owner
    /\ \E r \in Children : pc[r] = "dead"
    /\ \E k \in Keys : hist[k].crashed

\* the actor has been built
Built == owner /\ redundancy > 0

\* C12: for every hook the setting in effect for the built actor is the
\* builder override when one is set, otherwise what the state type declares,
\* otherwise the engine default; the connection manager built without
\* overrides runs under the restart strategy it declares.
C12_OverrideTypeDefault ==
    Built =>
        /\ \A h \in Hooks :
              effective[h] = IF overrides[h] # <<>> THEN overrides[h][1]
                             ELSE IF declared[h] # <<>> THEN declared[h][1]
                             ELSE "std"
        /\ (declared = RedisHooks /\ overrides = Unset) =>
              effective["restart_strategy"] = RedisHooks["restart_strategy"][1]

\* a pool build of child r fails in this step: at handler start, or in the
\* iteration that applies a Reconnected event
PoolBuildFails(r) ==
    \/ HandlerStart(r) /\ PoolBuild(urls) = <<>>
    \/ OnEvent(r) /\ Rebuilds(Head(mailbox[r])) /\ PoolBuild(urls') = <<>>

\* C13: a pool build from a url list that cannot be connected never ends in a
\* panic of the handler: the handler is not torn down by it.
C13_PoolFailureNoPanic ==
    [][\A r \in Replicas : PoolBuildFails(r) => ~Crash(r)]_vars

FacadeOps == {"RedisInsert", "RedisQuery", "RedisDelete"}

\* C14: a facade call whose send failed gives its caller something else than
\* the same call gives when the send succeeds.
C14_SendErrorReported ==
    (caller.op \in FacadeOps /\ ~caller.sent)
        => caller.ret # FacadeReturn(caller.op, TRUE)

\* what query() can give its caller once the handler is done with the
\* question: the bytes replied, or, the sender having been dropped without a
\* reply, the unwrap of the failed request or a wait that nothing ends
QueryOutcomes(rep) == IF rep # <<>> THEN {"value"} ELSE {"panicked", "waiting"}

\* C15: every query call ends for its caller with a value or with a timeout,
\* also when the handler sends no reply.
C15_QueryBounded ==
    obs.kind = "RedisQuery" => QueryOutcomes(obs.reply) \subseteq {"value", "timeout"}

\* the handler of child r goes on to its next message with the aggregate as
\* it was
Continues(r) ==
    /\ pc' = pc
    /\ writers' = writers
    /\ conn' = conn
    /\ state' = state
    /\ urls' = urls
    /\ mailbox' = Rest(r)

\* C16: an iteration of an Initialized aggregate in which a store operation
\* fails (the get of a query, the set or the expire of an insert, the del of
\* a delete) does not fail the handler and leaves state and urls unchanged.
C16_StoreFailureAbsorbed ==
    [][\A r \in Replicas :
          state = "Initialized" =>
              /\ \A replyOk \in BOOLEAN : QueryStep(r, FALSE, replyOk) => Continues(r)
              /\ \A setOk, expOk \in BOOLEAN :
                    ((~setOk \/ ~expOk) /\ InsertStep(r, setOk, expOk)) => Continues(r)
              /\ DeleteStep(r, FALSE) => Continues(r)]_vars

\* a delete whose del failed: the key it was to remove is still in the store
\* it went to, and the handler waits for its next message
C16_Witness ==
    /\ obs.kind = "RedisDelete"
    /\ obs.st = "Initialized"
    /\ obs.prior.op = "insert"
    /\ obs.prior.cluster = ClusterOf(obs.via[1])
    /\ store[obs.prior.cluster][obs.key].present
    /\ store[obs.prior.cluster][obs.key].val = obs.prior.val
    /\ hist[obs.key] = NoHist
    /\ \A r \in Children : pc[r] = "loop"

\* C17: state and urls change only in a loop iteration that applies an
\* event; the iterations for a command, a Query, an Insert, a Delete or an
\* unmatched message leave both as they were.
C17_OnlyEventsChangeState ==
    [][/\ (state' # state \/ urls' # urls) => \E r \in Replicas : OnEvent(r)
       /\ \A r \in Replicas :
             (OnCommand(r) \/ OnQuery(r) \/ OnInsert(r) \/ OnDelete(r) \/ OnFallback(r))
                 => (state' = state /\ urls' = urls)]_vars

\* a command for other urls has been handled, its event waits in the mailbox
\* and the aggregate still has the urls it was started with
C17_Witness ==
    /\ obs.kind = "ReconnectRedisServer"
    /\ state = "Initialized"
    /\ urls = startUrls
    /\ applied = RedisServerConnected(startUrls)
    /\ \E r \in Children :
          /\ pc[r] = "loop"
          /\ mailbox[r] # <<>>
          /\ mailbox[r][Len(mailbox[r])] = RedisServerReconnected(<<"b">>)

\* the event that corresponds to a command
EventOf(c) ==
    Msg(IF c.type = "ConnectRedisServer" THEN "RedisServerConnected"
        ELSE "RedisServerReconnected", c.urls, "", <<>>, FALSE)

\* C18: the iteration that handles a command takes the command off the
\* mailbox and puts exactly one message, the corresponding event with the
\* command's urls, at the tail of a mailbox of the aggregate, behind all
\* that is queued; it applies nothing, so what was queued before the event is
\* processed against the state from before it.
C18_OneEventQueuedBehind ==
    [][\A r \in Replicas :
          OnCommand(r) =>
              /\ \E q \in Children :
                    \A p \in Children :
                        mailbox'[p] =
                            LET left == IF p = r THEN Tail(mailbox[p]) ELSE mailbox[p]
                            IN IF p = q THEN Append(left, EventOf(Head(mailbox[r])))
                               ELSE left
              /\ applied' = applied
              /\ state' = state
              /\ urls' = urls
              /\ conn' = conn]_vars

\* a query that was queued between a reconnect command and its event has
\* been served on the old connection; the event is next
C18_Witness ==
    /\ obs.kind = "RedisQuery"
    /\ obs.st = "Initialized"
    /\ obs.via = <<startUrls>>
    /\ urls = startUrls
    /\ extCmds = <<ReconnectRedisServer(<<"b">>)>>
    /\ \E r \in Children :
          pc[r] = "loop" /\ mailbox[r] = <<RedisServerReconnected(<<"b">>)>>

\* the one external command was a reconnect to other urls than those given
\* to init_redis, and its Reconnected event has been applied: neither the
\* command nor the event is left in a mailbox
ReconnectedApplied ==
    /\ Len(extCmds) = 1
    /\ extCmds[1].type = "ReconnectRedisServer"
    /\ extCmds[1].urls # startUrls
    /\ \A r \in Children : \A i \in 1..Len(mailbox[r]) :
          mailbox[r][i] \notin {extCmds[1], EventOf(extCmds[1])}

\* C19: each message is handled to the end before the next, so a pool
\* rebuild is never half done when an operation is served, and once the
\* Reconnected event has been applied no Query, Insert or Delete is served
\* with a connection built from the urls the aggregate had before it.
C19_NoOldConnection ==
    /\ \A r \in Children : pc[r] = "loop" => (Len(conn[r]) = 1 /\ CanConnect(conn[r][1]))
    /\ (ReconnectedApplied /\ obs.kind \in Ops /\ obs.st = "Initialized")
          => obs.via # <<startUrls>>

\* child r applies an event of type t in this step
Applies(r, t) == OnEvent(r) /\ Head(mailbox[r]).type = t

\* C20, as stated: Initialized is never left; applying Connected gives
\* Initialized and the event's urls; after applying Reconnected the
\* aggregate is Initialized with the event's urls.
C20_InitializedTerminal ==
    /\ [][state = "Initialized" => state' = "Initialized"]_vars
    /\ [][\A r \in Replicas :
            Applies(r, "RedisServerConnected") =>
                (state' = "Initialized" /\ urls' = Head(mailbox[r]).urls)]_vars
    /\ [][\A r \in Replicas :
            Applies(r, "RedisServerReconnected") =>
                (state' = "Initialized" /\ urls' = Head(mailbox[r]).urls)]_vars

\* C20, amended: Initialized is never left, under any messages and
\* restarts, and is entered only by applying a Connected event, which also
\* sets urls; applying Reconnected sets urls and leaves the state as it was.
C20_ReconnectedKeepsState ==
    /\ [][state = "Initialized" => state' = "Initialized"]_vars
    /\ [][state' # state => \E r \in Replicas : Applies(r, "RedisServerConnected")]_vars
    /\ [][\A r \in Replicas :
            Applies(r, "RedisServerConnected") =>
                (state' = "Initialized" /\ urls' = Head(mailbox[r]).urls)]_vars
    /\ [][\A r \in Replicas :
            Applies(r, "RedisServerReconnected") =>
                (state' = state /\ urls' = Head(mailbox[r]).urls)]_vars

\* a Reconnected event has been applied to an aggregate that was never
\* connected: new urls, a rebuilt connection, still Uninitialized
C20_Witness ==
    /\ applied = RedisServerReconnected(<<"b">>)
    /\ obs.kind = "RedisServerReconnected"
    /\ obs.st = "Uninitialized"
    /\ state = "Uninitialized"
    /\ urls = <<"b">>
    /\ \E r \in Children : pc[r] = "loop" /\ conn[r] = <<urls>>

\* C21: once the Reconnected event of the one external command has been
\* applied, urls are that event's urls in every later state: no bootstrap
\* command of a start or restart sets them back.
C21_BootstrapKeepsReconfiguration ==
    ReconnectedApplied => urls = extCmds[1].urls

\* C22: an iteration that applies a Reconnected event whose pool rebuild
\* fails leaves urls as they were before the event, and the handler
\* restarted after it has urls from which a pool can be built.
C22_UrlsKeptOnFailedRebuild ==
    [][\A r \in Replicas :
          (Applies(r, "RedisServerReconnected") /\ ~CanConnect(Head(mailbox[r]).urls))
              => (urls' = urls /\ (CanConnect(urls) => CanConnect(urls')))]_vars

====
